---- MODULE Spec2Model ----
(***************************************************************************)
(* A model of actions/crdjsonschema/openapi2jsonschema.py: the script that *)
(* turns Kubernetes CRD documents into JSON schema files.                  *)
(*                                                                         *)
(* Parsed YAML / JSON values are tagged records:                           *)
(*   Map(m)   a dict, m a function from key strings to values              *)
(*   List(l)  a list, l a sequence of values                               *)
(*   Str(s)   a string that the script only compares (a schema literal)    *)
(*   Text(cs) a string that the script formats, splits or lower-cases,     *)
(*            kept as its sequence of characters                           *)
(*   Bool(b), Null                                                         *)
(* Documents are trees: YAML aliases (two places holding the same object)  *)
(* are outside the model.  An in-place mutation of an argument is modelled *)
(* by returning the argument's new value beside the result.                *)
(***************************************************************************)
EXTENDS Integers, Sequences, FiniteSets, TLC

VARIABLES
  \* the script's run
  pc, argc, i, y, version, schemas, w, files, definitions_file, all_file,
  stdout, code, err,
  \* ghost: the schema bodies as they were extracted
  extracted,
  \* a single call of one of the tree passes
  fn, input, data, ret,
  \* a sequence of append_no_duplicates calls on one object
  obj, obj0, inserted

runVars  == <<pc, argc, i, y, version, schemas, w, files, definitions_file,
              all_file, stdout, code, err, extracted>>
passVars == <<fn, input, data, ret>>
appVars  == <<obj, obj0, inserted>>
vars     == <<runVars, passVars, appVars>>

----------------------------------------------------------------------------
(* Values *)

Str(s)   == [t |-> "str", s |-> s]
Text(cs) == [t |-> "text", cs |-> cs]
Bool(b)  == [t |-> "bool", b |-> b]
List(l)  == [t |-> "list", l |-> l]
Map(m)   == [t |-> "map", m |-> m]
Null     == [t |-> "null"]

IsMap(n)    == n.t = "map"
IsList(n)   == n.t = "list"
IsString(n) == n.t \in {"str", "text"}
Has(n, k)   == k \in DOMAIN n.m
Put(n, k, v) == Map((k :> v) @@ n.m)

\* A raised, uncaught exception.
Raised(type, line) == [t |-> "raised", type |-> type, line |-> line]
IsRaised(r) == r.t = "raised"

----------------------------------------------------------------------------
(* The tree passes *)

\* Lines 44-46: the in-place injection into a dict child.
Inject(v) ==
  IF Has(v, "properties") /\ ~Has(v, "additionalProperties")
  THEN Put(v, "additionalProperties", Bool(FALSE))
  ELSE v

\* additional_properties(data): ret is the returned tree, arg the value of
\* the argument object after the call (its dict children are mutated).
RECURSIVE additional_properties(_)
additional_properties(d) ==
  IF ~IsMap(d)
  THEN [ret |-> d, arg |-> d]           \* data.items() raises AttributeError
  ELSE LET child(k) == LET v == d.m[k]
                       IN IF IsMap(v) THEN additional_properties(Inject(v))
                                      ELSE [ret |-> v, arg |-> v]
       IN [ret |-> Map([k \in DOMAIN d.m |-> child(k).ret]),
           arg |-> Map([k \in DOMAIN d.m |-> child(k).arg])]

OneOfStringInteger ==
  Map("oneOf" :> List(<<Map("type" :> Str("string")),
                        Map("type" :> Str("integer"))>>))

\* Line 62: the test on a dict child.
IsIntOrString(v) == Has(v, "format") /\ v.m["format"] = Str("int-or-string")

RECURSIVE replace_int_or_string(_)
replace_int_or_string(d) ==
  IF ~IsMap(d)
  THEN d                                \* data.items() raises AttributeError
  ELSE Map([k \in DOMAIN d.m |->
         LET v == d.m[k]
         IN IF IsMap(v)
            THEN IF IsIntOrString(v) THEN OneOfStringInteger
                                     ELSE replace_int_or_string(v)
            ELSE IF IsList(v)
            THEN List([n \in 1..Len(v.l) |-> replace_int_or_string(v.l[n])])
            ELSE v])

\* Line 92 reads has_required_field, a name nothing binds; `and` evaluates it
\* only when is_non_null_type is true.
Line92Fixed(is_non_null_type, has_required_fields, v) ==
  IF is_non_null_type /\ ~has_required_fields
  THEN List(<<v, Str("null")>>) ELSE v
Line92(is_non_null_type, has_required_fields, v) ==
  IF is_non_null_type THEN Raised("NameError", 92) ELSE v

RECURSIVE allow_null_optional_fields(_, _, _, _)
allow_null_optional_fields(d, parent, grand_parent, key) ==
  IF ~IsMap(d)
  THEN d                                \* data.items() raises AttributeError
  ELSE LET new_v(k) ==
             LET v == d.m[k]
             IN IF IsMap(v)
                THEN allow_null_optional_fields(v, d, parent, k)
                ELSE IF IsList(v)
                THEN LET xs == [n \in 1..Len(v.l) |->
                                 allow_null_optional_fields(v.l[n], v, parent, k)]
                     IN IF \E n \in 1..Len(v.l) : IsRaised(xs[n])
                        THEN Raised("NameError", 92) ELSE List(xs)
                ELSE IF IsString(v)
                THEN LET is_non_null_type == k = "type" /\ v # Str("null")
                         has_required_fields ==
                           /\ grand_parent # Null
                           /\ IF IsMap(grand_parent)
                              THEN grand_parent.m # <<>> /\ Has(grand_parent, "required")
                              ELSE \E n \in 1..Len(grand_parent.l) :
                                     grand_parent.l[n] = Str("required")
                     IN Line92(is_non_null_type, has_required_fields, v)
                ELSE v
       IN IF \E k \in DOMAIN d.m : IsRaised(new_v(k))
          THEN Raised("NameError", 92)
          ELSE Map([k \in DOMAIN d.m |-> new_v(k)])

----------------------------------------------------------------------------
(* Bounded sets of trees, one per pass *)

MaxDepth == 3

\* The trees one level deeper than those of T: a dict with one key from Keys
\* holding a tree of T, alone or beside one of the Flags, or a list of one or
\* two elements.
Wrap(T, Keys, Flags, Leaves) ==
  {Map(k :> u) : k \in Keys, u \in T}
  \cup {Map((p[1] :> u) @@ p[2]) :
          p \in {q \in Keys \X Flags : q[1] \notin DOMAIN q[2]}, u \in T}
  \cup {List(<<u>>) : u \in T}
  \cup {List(<<l, u>>) : l \in Leaves, u \in T}

RECURSIVE Level(_, _, _, _)
Level(n, Keys, Flags, Leaves) ==
  IF n = 0 THEN Leaves \cup {Map(<<>>)}
  ELSE LET T == Level(n - 1, Keys, Flags, Leaves)
       IN T \cup Wrap(T, Keys, Flags, Leaves)

TreesAP ==
  Level(MaxDepth, {"properties", "x"},
        {"properties" :> Map(<<>>), "additionalProperties" :> Bool(TRUE)},
        {Str("s")})

TreesIOS ==
  Level(MaxDepth, {"format", "x"},
        {"format" :> Str("int-or-string"), "a" :> Str("s")},
        {Str("int-or-string")})

TreesNull ==
  Level(MaxDepth, {"type", "x"},
        {"type" :> Str("null"), "required" :> List(<<>>)},
        {Str("string"), Str("null")})

----------------------------------------------------------------------------
(* Idle values: what a specification leaves untouched *)

NoDoc  == [t |-> "nodoc"]
NoFile == [t |-> "nofile"]
NoRet  == [t |-> "noret"]
NoErr  == [t |-> "noerr"]

RunIdle ==
  /\ pc = "idle" /\ argc = 0 /\ i = 0 /\ y = NoDoc /\ version = NoDoc
  /\ schemas = <<>> /\ extracted = <<>> /\ w = 0 /\ files = <<>>
  /\ definitions_file = NoFile /\ all_file = NoFile
  /\ stdout = <<>> /\ code = -1 /\ err = NoErr

PassIdle == fn = "idle" /\ input = Null /\ data = Null /\ ret = NoRet

AppIdle == obj = Null /\ obj0 = Null /\ inserted = <<>>

----------------------------------------------------------------------------
(* One call of a tree pass on a tree drawn from a bounded set *)

\* The passes are called on schema bodies: the dicts among the trees.
PassInit(Trees) ==
  /\ fn = "none" /\ data \in {u \in Trees : IsMap(u)}
  /\ input = data /\ ret = NoRet
  /\ RunIdle /\ AppIdle

CallAdditionalProperties ==
  /\ fn = "none"
  /\ LET r == additional_properties(data)
     IN /\ ret' = r.ret
        /\ data' = r.arg
  /\ fn' = "additional_properties"
  /\ UNCHANGED <<input, runVars, appVars>>

CallReplaceIntOrString ==
  /\ fn = "none"
  /\ ret' = replace_int_or_string(data)
  /\ fn' = "replace_int_or_string"
  /\ UNCHANGED <<input, data, runVars, appVars>>

CallAllowNullOptionalFields ==
  /\ fn = "none"
  /\ ret' = allow_null_optional_fields(data, Null, Null, Null)
  /\ fn' = "allow_null_optional_fields"
  /\ UNCHANGED <<input, data, runVars, appVars>>

SpecAdditionalProperties ==
  PassInit(TreesAP) /\ [][CallAdditionalProperties]_vars
SpecReplaceIntOrString ==
  PassInit(TreesIOS) /\ [][CallReplaceIntOrString]_vars
SpecAllowNull ==
  PassInit(TreesNull) /\ [][CallAllowNullOptionalFields]_vars

----------------------------------------------------------------------------
(* append_no_duplicates, lines 100-108 *)

Contains(l, v) == \E n \in 1..Len(l) : l[n] = v

\* The object after the call (the list is created and extended in place).
append_always(o, key, value) ==
  LET o1 == IF ~Has(o, key) THEN Put(o, key, List(<<>>)) ELSE o
  IN Put(o1, key, List(Append(o1.m[key].l, value)))
append_no_duplicates(o, key, value) ==
  LET o1 == IF ~Has(o, key) THEN Put(o, key, List(<<>>)) ELSE o
  IN IF ~Contains(o1.m[key].l, value)
     THEN Put(o1, key, List(Append(o1.m[key].l, value)))
     ELSE o1

MaxCalls == 3

AppKeys   == {"enum", "other"}
AppValues == {Text(<<"a">>), Text(<<"b">>), Str("c")}

\* The lists without duplicates of at most two values.
DupFreeLists ==
  {<<>>} \cup {<<a>> : a \in AppValues}
         \cup {<<p[1], p[2]>> : p \in {q \in AppValues \X AppValues : q[1] # q[2]}}

AppObjects ==
  LET Rest == {<<>>, "type" :> Str("string")}
  IN {Map(r) : r \in Rest}
     \cup {Map(("enum" :> List(l)) @@ r) : l \in DupFreeLists, r \in Rest}

AppInit ==
  /\ obj \in AppObjects /\ obj0 = obj /\ inserted = <<>>
  /\ RunIdle /\ PassIdle

CallAppendNoDuplicates ==
  /\ Len(inserted) < MaxCalls
  /\ \E key \in AppKeys, value \in AppValues :
       /\ obj' = append_no_duplicates(obj, key, value)
       /\ inserted' = Append(inserted, <<key, value>>)
  /\ UNCHANGED <<obj0, runVars, passVars>>

SpecAppend == AppInit /\ [][CallAppendNoDuplicates]_vars

----------------------------------------------------------------------------
(* Strings the script formats: sequences of characters *)

LowerChar(c) ==
  CASE c = "K" -> "k" [] c = "G" -> "g" [] c = "V" -> "v" [] c = "X" -> "x"
    [] OTHER -> c
Lower(cs) == [n \in 1..Len(cs) |-> LowerChar(cs[n])]

\* group.split(".")[0], line 167
FirstSegment(cs) ==
  LET dots == {n \in 1..Len(cs) : cs[n] = "."}
  IN IF dots = {} THEN cs
     ELSE SubSeq(cs, 1, (CHOOSE n \in dots : \A o \in dots : n <= o) - 1)

\* os.path.basename, line 116
Basename(cs) ==
  LET slashes == {n \in 1..Len(cs) : cs[n] = "/"}
  IN IF slashes = {} THEN cs
     ELSE SubSeq(cs, (CHOOSE n \in slashes : \A o \in slashes : n >= o) + 1, Len(cs))

DotJson == <<".", "j", "s", "o", "n">>

\* filename_format.format(...) with the default "{kind}-{group}-{version}",
\* lines 161 and 165-169
FilenameFullGroup(schema) ==
  Lower(schema.kind.cs \o <<"-">> \o schema.group.cs
        \o <<"-">> \o schema.version.cs) \o DotJson
Filename(schema) ==
  Lower(schema.kind.cs \o <<"-">> \o FirstSegment(schema.group.cs)
        \o <<"-">> \o schema.version.cs) \o DotJson

\* f'{schema.group}/{schema.version}', line 180
ApiVersion(schema) == schema.group.cs \o <<"/">> \o schema.version.cs

\* f'{schema.group}.{schema.version}.{schema.kind}', lines 182 and 189
DefinitionKeyFirstSegment(schema) ==
  FirstSegment(schema.group.cs) \o <<".">> \o schema.version.cs
  \o <<".">> \o schema.kind.cs
DefinitionKey(schema) ==
  schema.group.cs \o <<".">> \o schema.version.cs \o <<".">> \o schema.kind.cs

RefPrefix ==
  <<"_", "d", "e", "f", "i", "n", "i", "t", "i", "o", "n", "s", ".", "j", "s",
    "o", "n", "#", "/", "d", "e", "f", "i", "n", "i", "t", "i", "o", "n", "s", "/">>

----------------------------------------------------------------------------
(* The documents the loader yields *)

CRD == Str("CustomResourceDefinition")

\* The entries of spec.versions are drawn when the loop of line 151 reaches
\* them: the list itself is this marker.
Stream == [t |-> "stream"]

Groups == {Text(<<"g">>), Text(<<"g", ".", "x">>)}

\* A schema body as controller-gen writes it: apiVersion and kind properties,
\* a nested object and an int-or-string field.  apiVersion already lists "g/v".
BodyFull ==
  Map("properties" :> Map(
        "apiVersion" :> Map("type" :> Str("string")
                            @@ "enum" :> List(<<Text(<<"g", "/", "v">>)>>))
     @@ "kind" :> Map("type" :> Str("string"))
     @@ "spec" :> Map("properties" :> Map(
                        "port" :> Map("format" :> Str("int-or-string"))))))

\* A body whose kind property lists the same value twice.
BodyDup ==
  Map("properties" :> Map(
        "apiVersion" :> Map(<<>>)
     @@ "kind" :> Map("enum" :> List(<<Text(<<"K">>), Text(<<"K">>)>>))))

\* A body without properties.
BodyBare == Map("type" :> Str("object"))

Bodies == {BodyFull, BodyDup, BodyBare}

Validation(b) == "validation" :> Map("openAPIV3Schema" :> b)
NamesOf(k)    == "names" :> Map("kind" :> k)
CrdDoc(spec)  == Map("kind" :> CRD @@ "spec" :> Map(spec))
Without(f, k) == [x \in DOMAIN f \ {k} |-> f[x]]

LegacySpec ==
  NamesOf(Text(<<"K">>)) @@ "group" :> Text(<<"g", ".", "x">>)
  @@ "version" :> Text(<<"v">>) @@ Validation(BodyFull)

ModernSpecs ==
  {NamesOf(Text(<<"K">>)) @@ "group" :> g @@ "versions" :> Stream : g \in Groups}

Docs ==
  \* not a CRD
  {Null, Map(<<>>), Map("kind" :> Str("Deployment")), Map("kind" :> CRD)}
  \* neither shape
  \cup {CrdDoc(<<>>), CrdDoc("validation" :> Map(<<>>)),
        CrdDoc(Without(LegacySpec, "validation"))}
  \* the legacy shape, also with spec.versions beside it
  \cup {CrdDoc(LegacySpec), CrdDoc(LegacySpec @@ "versions" :> Stream),
        CrdDoc(NamesOf(Text(<<"k">>)) @@ "group" :> Text(<<"g">>)
               @@ "version" :> Text(<<"x", ".", "v">>) @@ Validation(BodyBare))}
  \* the legacy shape, a nested key missing
  \cup {CrdDoc(Without(LegacySpec, k)) : k \in {"names", "group", "version"}}
  \cup {CrdDoc(("names" :> Map(<<>>)) @@ LegacySpec)}
  \* the modern shape
  \cup {CrdDoc(m) : m \in ModernSpecs}
  \* the modern shape, a nested key missing
  \cup {CrdDoc(Without(m, k)) :
          m \in {n \in ModernSpecs : n["group"] = Text(<<"g">>)},
          k \in {"names", "group"}}

\* The entries of a spec.versions list.
VersionEntries ==
  {Map("name" :> Text(<<"v">>) @@ "schema" :> Map("openAPIV3Schema" :> b)) :
     b \in Bodies}
  \cup {Map("name" :> Text(<<"x", ".", "v">>)
            @@ "schema" :> Map("openAPIV3Schema" :> BodyFull)),
        Map("name" :> Text(<<"v">>)),
        Map("name" :> Text(<<"v">>) @@ "schema" :> Map(<<>>)),
        Map("schema" :> Map("openAPIV3Schema" :> BodyFull)),
        Map(<<>>)}

----------------------------------------------------------------------------
(* The run of the script *)

MaxArgs == 1
MaxSchemas == 2

EmptyFile == [t |-> "emptyfile"]

\* n[k] on a parsed value: KeyError when the dict lacks k, TypeError when n
\* is no dict; an exception raised while evaluating n propagates.
Item(n, k, line) ==
  IF IsRaised(n) THEN n
  ELSE IF ~IsMap(n) THEN Raised("TypeError", line)
  ELSE IF Has(n, k) THEN n.m[k]
  ELSE Raised("KeyError", line)

\* Schema(kind=..., group=..., version=..., definition=...): the arguments
\* are evaluated in this order and the first exception propagates.
Schema(kind, group, ver, definition) ==
  IF IsRaised(kind) THEN kind
  ELSE IF IsRaised(group) THEN group
  ELSE IF IsRaised(ver) THEN ver
  ELSE IF IsRaised(definition) THEN definition
  ELSE [t |-> "schema", kind |-> kind, group |-> group, version |-> ver,
        definition |-> definition]

\* Lines 143-148.
LegacySchema(d) ==
  Schema(Item(Item(Item(d, "spec", 144), "names", 144), "kind", 144),
         Item(Item(d, "spec", 145), "group", 145),
         Item(Item(d, "spec", 146), "version", 146),
         Item(Item(Item(d, "spec", 147), "validation", 147), "openAPIV3Schema", 147))

\* Lines 153-158.
VersionSchemaSpecVersion(d, e) ==
  Schema(Item(Item(Item(d, "spec", 154), "names", 154), "kind", 154),
         Item(Item(d, "spec", 155), "group", 155),
         Item(Item(d, "spec", 156), "version", 156),
         Item(Item(e, "schema", 157), "openAPIV3Schema", 157))
VersionSchema(d, e) ==
  Schema(Item(Item(Item(d, "spec", 154), "names", 154), "kind", 154),
         Item(Item(d, "spec", 155), "group", 155),
         Item(e, "name", 156),
         Item(Item(e, "schema", 157), "openAPIV3Schema", 157))

\* The conditions of lines 142, 150 and 152.
IsLegacy(d) ==
  /\ Has(d, "spec") /\ Has(d.m["spec"], "validation")
  /\ Has(d.m["spec"].m["validation"], "openAPIV3Schema")
IsModern(d) == Has(d, "spec") /\ Has(d.m["spec"], "versions")
HasSchema(e) == Has(e, "schema") /\ Has(e.m["schema"], "openAPIV3Schema")

\* Lines 137-140: the documents the loop passes over.
IsCrd(d) == d # Null /\ Has(d, "kind") /\ d.m["kind"] = CRD

Init ==
  /\ pc = "start" /\ argc \in 1..(MaxArgs + 1)
  /\ i = 0 /\ y = NoDoc /\ version = NoDoc
  /\ schemas = <<>> /\ extracted = <<>> /\ w = 0 /\ files = <<>>
  /\ definitions_file = NoFile /\ all_file = NoFile
  /\ stdout = <<>> /\ code = -1 /\ err = NoErr
  /\ PassIdle /\ AppIdle

\* An uncaught exception ends the run with a traceback and exit code 1.
Crash(e) == pc' = "exited" /\ code' = 1 /\ err' = e

\* Lines 123-127.
CheckArguments ==
  /\ pc = "start"
  /\ IF argc = 0
     THEN /\ stdout' = Append(stdout, Str("missing file"))
          /\ pc' = "exited" /\ code' = 1
          /\ UNCHANGED <<i, schemas>>
     ELSE /\ schemas' = <<>> /\ i' = 1 /\ pc' = "args"
          /\ UNCHANGED <<stdout, code>>
  /\ UNCHANGED <<argc, y, version, w, files, definitions_file, all_file, err,
                 extracted, passVars, appVars>>

\* Lines 129-134: the next argument is opened.
OpenInput ==
  /\ pc = "args" /\ i < argc
  /\ pc' = "docs"
  /\ UNCHANGED <<argc, i, y, version, schemas, w, files, definitions_file,
                 all_file, stdout, code, err, extracted, passVars, appVars>>

\* Lines 131 and 133: urlopen or open fails.
OpenFails ==
  /\ pc = "args" /\ i < argc
  /\ Crash(Raised("OSError", 133))
  /\ UNCHANGED <<argc, i, y, version, schemas, w, files, definitions_file,
                 all_file, stdout, extracted, passVars, appVars>>

\* Line 136: the document stream cannot be parsed.
LoadFails ==
  /\ pc = "docs"
  /\ Crash(Raised("YAMLError", 136))
  /\ UNCHANGED <<argc, i, y, version, schemas, w, files, definitions_file,
                 all_file, stdout, extracted, passVars, appVars>>

\* Lines 136-150: the loader yields the document d.
LoadDocument(d) ==
  /\ pc = "docs"
  /\ y' = d
  /\ IF d = Null
     THEN /\ Crash(Raised("TypeError", 137))
          /\ UNCHANGED <<schemas, extracted>>
     ELSE IF ~IsCrd(d)
     THEN UNCHANGED <<pc, code, err, schemas, extracted>>
     ELSE IF IsLegacy(d)
     THEN LET s == LegacySchema(d)
          IN IF IsRaised(s)
             THEN Crash(s) /\ UNCHANGED <<schemas, extracted>>
             ELSE /\ Len(schemas) < MaxSchemas
                  /\ schemas' = Append(schemas, s)
                  /\ extracted' = Append(extracted, s.definition)
                  /\ UNCHANGED <<pc, code, err>>
     ELSE IF IsModern(d)
     THEN pc' = "versions" /\ UNCHANGED <<code, err, schemas, extracted>>
     ELSE UNCHANGED <<pc, code, err, schemas, extracted>>
  /\ UNCHANGED <<argc, i, version, w, files, definitions_file, all_file,
                 stdout, passVars, appVars>>

\* Lines 151-158: one entry e of y["spec"]["versions"].
VersionEntry(e) ==
  /\ pc = "versions"
  /\ version' = e
  /\ IF HasSchema(e)
     THEN LET s == VersionSchema(y, e)
          IN IF IsRaised(s)
             THEN Crash(s) /\ UNCHANGED <<schemas, extracted>>
             ELSE /\ Len(schemas) < MaxSchemas
                  /\ schemas' = Append(schemas, s)
                  /\ extracted' = Append(extracted, s.definition)
                  /\ UNCHANGED <<pc, code, err>>
     ELSE UNCHANGED <<pc, code, err, schemas, extracted>>
  /\ UNCHANGED <<argc, i, y, w, files, definitions_file, all_file, stdout,
                 passVars, appVars>>

\* Line 151: the list is exhausted.
EndVersions ==
  /\ pc = "versions"
  /\ pc' = "docs" /\ version' = NoDoc
  /\ UNCHANGED <<argc, i, y, schemas, w, files, definitions_file, all_file,
                 stdout, code, err, extracted, passVars, appVars>>

\* Lines 134-136: the stream is exhausted and the input is closed.
EndOfInput ==
  /\ pc = "docs"
  /\ pc' = "args" /\ i' = i + 1 /\ y' = NoDoc
  /\ UNCHANGED <<argc, version, schemas, w, files, definitions_file, all_file,
                 stdout, code, err, extracted, passVars, appVars>>

\* Lines 129 and 161: no argument is left.
EndArguments ==
  /\ pc = "args" /\ i >= argc
  /\ pc' = "write" /\ w' = 1
  /\ UNCHANGED <<argc, i, y, version, schemas, files, definitions_file,
                 all_file, stdout, code, err, extracted, passVars, appVars>>

\* write_schema_file(schema, filename), lines 111-120: out is the written
\* tree, arg the value of the argument after the call, name the file.
write_schema_file(schema, filename) ==
  LET closed == additional_properties(schema)
  IN [out |-> replace_int_or_string(closed.ret), arg |-> closed.arg,
      name |-> Basename(filename)]

\* Lines 164-170: one schema's file.
WriteSchemaFile ==
  /\ pc = "write" /\ w <= Len(schemas)
  /\ LET r == write_schema_file(schemas[w].definition, Filename(schemas[w]))
     IN /\ files' = (r.name :> r.out) @@ files
        /\ schemas' = [schemas EXCEPT ![w].definition = r.arg]
        /\ stdout' = Append(stdout, Text(r.name))
  /\ w' = w + 1
  /\ UNCHANGED <<pc, argc, i, y, version, definitions_file, all_file, code,
                 err, extracted, passVars, appVars>>

\* The loop of lines 179-182 from the n-th schema on: the schemas as the loop
\* leaves them, the definitions dict, and the exception that ended it.
RECURSIVE DefinitionsLoop(_, _, _)
DefinitionsLoop(ss, n, defs) ==
  IF n > Len(ss) THEN [schemas |-> ss, definitions |-> defs, err |-> NoErr]
  ELSE
    LET schema == ss[n]
        d0   == schema.definition
        api  == Item(Item(d0, "properties", 180), "apiVersion", 180)
        api1 == IF IsRaised(api) THEN api
                ELSE IF ~IsMap(api) THEN Raised("TypeError", 106)
                ELSE append_no_duplicates(api, "enum", Text(ApiVersion(schema)))
        d1   == Put(d0, "properties", Put(d0.m["properties"], "apiVersion", api1))
        knd  == Item(Item(d1, "properties", 181), "kind", 181)
        knd1 == IF IsRaised(knd) THEN knd
                ELSE IF ~IsMap(knd) THEN Raised("TypeError", 106)
                ELSE append_no_duplicates(knd, "enum", schema.kind)
        d2   == Put(d1, "properties", Put(d1.m["properties"], "kind", knd1))
    IN IF IsRaised(api1)
       THEN [schemas |-> ss, definitions |-> defs, err |-> api1]
       ELSE IF IsRaised(knd1)
       THEN [schemas |-> [ss EXCEPT ![n].definition = d1],
             definitions |-> defs, err |-> knd1]
       ELSE DefinitionsLoop([ss EXCEPT ![n].definition = d2], n + 1,
                            (DefinitionKey(schema) :> d2) @@ defs)

\* Lines 164 and 175-184: the per-schema loop is over; _definitions.json is
\* opened, built and written.
WriteDefinitions ==
  /\ pc = "write" /\ w > Len(schemas)
  /\ LET r == DefinitionsLoop(schemas, 1, <<>>)
     IN /\ schemas' = r.schemas
        /\ IF IsRaised(r.err)
           THEN /\ definitions_file' = EmptyFile
                /\ Crash(r.err)
           ELSE /\ definitions_file' = Map("definitions" :> Map(r.definitions))
                /\ pc' = "all"
                /\ UNCHANGED <<code, err>>
  /\ UNCHANGED <<argc, i, y, version, w, files, all_file, stdout, extracted,
                 passVars, appVars>>

\* Lines 188-190.
Refs(ss) ==
  [n \in 1..Len(ss) |-> Map("$ref" :> Text(RefPrefix \o DefinitionKey(ss[n])))]

WriteAll ==
  /\ pc = "all"
  /\ all_file' = Map("oneOf" :> List(Refs(schemas)))
  /\ pc' = "exit"
  /\ UNCHANGED <<argc, i, y, version, schemas, w, files, definitions_file,
                 stdout, code, err, extracted, passVars, appVars>>

\* Line 192.
Exit ==
  /\ pc = "exit"
  /\ pc' = "exited" /\ code' = 0
  /\ UNCHANGED <<argc, i, y, version, schemas, w, files, definitions_file,
                 all_file, stdout, err, extracted, passVars, appVars>>

Next ==
  \/ CheckArguments
  \/ OpenInput
  \/ OpenFails
  \/ LoadFails
  \/ \E d \in Docs : LoadDocument(d)
  \/ \E e \in VersionEntries : VersionEntry(e)
  \/ EndVersions
  \/ EndOfInput
  \/ EndArguments
  \/ WriteSchemaFile
  \/ WriteDefinitions
  \/ WriteAll
  \/ Exit

Spec == Init /\ [][Next]_vars

----------------------------------------------------------------------------
(* The claims *)

Count(l, v) == Cardinality({n \in 1..Len(l) : l[n] = v})

\* The tree with additionalProperties: false at every dict that has
\* properties and no additionalProperties, wherever it stands.
RECURSIVE ClosedEverywhere(_)
ClosedEverywhere(n) ==
  IF IsMap(n)
  THEN LET c == Map([k \in DOMAIN n.m |-> ClosedEverywhere(n.m[k])])
       IN IF Has(n, "properties") /\ ~Has(n, "additionalProperties")
          THEN Put(c, "additionalProperties", Bool(FALSE)) ELSE c
  ELSE IF IsList(n)
  THEN List([x \in 1..Len(n.l) |-> ClosedEverywhere(n.l[x])])
  ELSE n

\* C1: the output of additional_properties is its input with
\* additionalProperties: false injected at every dict that has properties and
\* no additionalProperties (the root, a dict value, a list element), and
\* nothing else changed.
C1_Original ==
  fn = "additional_properties" => ret = ClosedEverywhere(input)

\* The tree with every dict whose format is "int-or-string" replaced by the
\* oneOf of string and integer, wherever it stands.
RECURSIVE WidenedEverywhere(_)
WidenedEverywhere(n) ==
  IF IsMap(n)
  THEN IF Has(n, "format") /\ n.m["format"] = Str("int-or-string")
       THEN OneOfStringInteger
       ELSE Map([k \in DOMAIN n.m |-> WidenedEverywhere(n.m[k])])
  ELSE IF IsList(n)
  THEN List([x \in 1..Len(n.l) |-> WidenedEverywhere(n.l[x])])
  ELSE n

\* C2: the output of replace_int_or_string is its input with every dict whose
\* format is "int-or-string" (the root, a dict value, a list element) replaced
\* by {"oneOf": [{"type": "string"}, {"type": "integer"}]}, and every other
\* node preserved.
C2_Original ==
  fn = "replace_int_or_string" => ret = WidenedEverywhere(input)

NothingWritten ==
  files = <<>> /\ definitions_file = NoFile /\ all_file = NoFile

\* C3: a run with no input argument (argc = 1, the script name alone) writes
\* no output file and exits with code 1 after printing a message; exit code 0
\* needs at least one input argument.
C3_Original ==
  /\ argc = 1 => NothingWritten
  /\ (pc = "exited" /\ argc = 1) =>
       code = 1 /\ Contains(stdout, Str("missing file"))
  /\ code = 0 => argc > 1

\* C4: no loaded CustomResourceDefinition document makes extraction raise:
\* one that matches neither shape, or lacks spec.names.kind, spec.group,
\* spec.version or a version entry's name, is passed over and the loop goes
\* on.
C4_Original ==
  (y # NoDoc /\ IsCrd(y)) =>
     ~(IsRaised(err) /\ err.line \in 137..158)

\* The nested keys the modern branch reads are there.
C5_Kind(d)  == d.m["spec"].m["names"].m["kind"]
C5_Group(d) == d.m["spec"].m["group"]
C5_HasKeys(d) ==
  /\ Has(d.m["spec"], "names") /\ Has(d.m["spec"].m["names"], "kind")
  /\ Has(d.m["spec"], "group")
C5_Record(d, e) ==
  [t |-> "schema", kind |-> C5_Kind(d), group |-> C5_Group(d),
   version |-> e.m["name"],
   definition |-> e.m["schema"].m["openAPIV3Schema"]]

\* What one entry of spec.versions adds: a record when it has
\* schema.openAPIV3Schema, nothing otherwise; a missing nested key ends the
\* run with a KeyError.
C5_EntryStep ==
  (\E e \in VersionEntries : VersionEntry(e)) =>
     IF ~HasSchema(version')
     THEN schemas' = schemas /\ pc' = "versions"
     ELSE IF C5_HasKeys(y) /\ Has(version', "name")
     THEN schemas' = Append(schemas, C5_Record(y, version')) /\ pc' = "versions"
     ELSE /\ schemas' = schemas /\ pc' = "exited" /\ code' = 1
          /\ err'.type = "KeyError"

C6_Key(s) == s.group.cs \o <<".">> \o s.version.cs \o <<".">> \o s.kind.cs
C6_ApiVersion(s) == Text(s.group.cs \o <<"/">> \o s.version.cs)
C6_Ref(s) == Map("$ref" :> Text(RefPrefix \o C6_Key(s)))

\* How often the enum of property prop of a definition lists v.
C6_Listed(definition, prop, v) ==
  LET p == definition.m["properties"].m[prop]
  IN IF Has(p, "enum") THEN Count(p.m["enum"].l, v) ELSE 0

Completed == pc = "exited" /\ code = 0

C6_AllJson ==
  all_file = Map("oneOf" :> List([n \in 1..Len(schemas) |-> C6_Ref(schemas[n])]))

\* C6: after a completed run, for every extracted record S, _definitions.json
\* has the key "<group>.<version>.<kind>" under definitions, the definition
\* stored there lists "<group>/<version>" exactly once in
\* properties.apiVersion.enum and S.kind exactly once in properties.kind.enum,
\* and all.json holds one $ref to that key per extracted record.  (Stated for
\* the runs whose extracted schemas list neither value more than once.)
C6_Original ==
  (/\ Completed
   /\ \A n \in 1..Len(schemas) :
        /\ C6_Listed(extracted[n], "apiVersion", C6_ApiVersion(schemas[n])) <= 1
        /\ C6_Listed(extracted[n], "kind", schemas[n].kind) <= 1)
  =>
    /\ \A n \in 1..Len(schemas) :
         LET s == schemas[n]
             defs == definitions_file.m["definitions"].m
         IN /\ C6_Key(s) \in DOMAIN defs
            /\ C6_Listed(defs[C6_Key(s)], "apiVersion", C6_ApiVersion(s)) = 1
            /\ C6_Listed(defs[C6_Key(s)], "kind", s.kind) = 1
    /\ C6_AllJson

\* C6 amended: after a completed run, for every extracted record S,
\* _definitions.json has the key "<group>.<version>.<kind>" under definitions
\* and the definition stored there is that of the last extracted record with
\* this key; S's own definition lists "<group>/<version>" in
\* properties.apiVersion.enum and S.kind in properties.kind.enum, exactly once
\* unless the extracted schema already listed the value more than once; and
\* all.json holds one $ref to the key per extracted record, in order.
C6_Amended ==
  Completed =>
    /\ \A n \in 1..Len(schemas) :
         LET s == schemas[n]
             defs == definitions_file.m["definitions"].m
             same == {o \in 1..Len(schemas) : C6_Key(schemas[o]) = C6_Key(s)}
             last == CHOOSE o \in same : \A q \in same : q <= o
         IN /\ C6_Key(s) \in DOMAIN defs
            /\ defs[C6_Key(s)] = schemas[last].definition
            /\ C6_Listed(s.definition, "apiVersion", C6_ApiVersion(s)) >= 1
            /\ C6_Listed(s.definition, "kind", s.kind) >= 1
            /\ C6_Listed(extracted[n], "apiVersion", C6_ApiVersion(s)) <= 1
                 => C6_Listed(s.definition, "apiVersion", C6_ApiVersion(s)) = 1
            /\ C6_Listed(extracted[n], "kind", s.kind) <= 1
                 => C6_Listed(s.definition, "kind", s.kind) = 1
    /\ DOMAIN definitions_file.m["definitions"].m
         = {C6_Key(schemas[n]) : n \in 1..Len(schemas)}
    /\ C6_AllJson

\* C6 witness: a completed run with two records of different group and
\* version whose keys coincide.
C6_Witness ==
  /\ Completed /\ Len(schemas) = 2
  /\ C6_Key(schemas[1]) = C6_Key(schemas[2])
  /\ schemas[1].group # schemas[2].group

\* The per-schema loop is over (no exception ends it).
Written == pc = "write" /\ w > Len(schemas)

C7_Triple(s) == <<s.kind, s.group, s.version>>

\* The file name the claim words: lower-cased
\* <kind>-<first dot segment of group>-<version>.json, its base name taken.
C7_Name(s) ==
  Basename(Lower(s.kind.cs \o <<"-">> \o FirstSegment(s.group.cs)
                 \o <<"-">> \o s.version.cs) \o DotJson)

\* What write_schema_file writes for the n-th record.
C7_Content(n) ==
  replace_int_or_string(additional_properties(extracted[n]).ret)

\* C7: when the per-schema files are written, two records with distinct
\* (kind, group, version) were written to distinct file names (the names the
\* script printed), and a record's file holds that record's schema unless a
\* later record has the same (kind, group, version).
C7_Original ==
  Written =>
    /\ \A m, n \in 1..Len(schemas) :
         C7_Triple(schemas[m]) # C7_Triple(schemas[n]) => stdout[m] # stdout[n]
    /\ \A n \in 1..Len(schemas) :
         /\ stdout[n].cs \in DOMAIN files
         /\ (\A o \in (n + 1)..Len(schemas) :
               C7_Triple(schemas[o]) # C7_Triple(schemas[n]))
              => files[stdout[n].cs] = C7_Content(n)

\* C7 amended: when the per-schema files are written there is one file per
\* distinct name, the name of a record being the base name of the lower-cased
\* <kind>-<first dot segment of group>-<version>.json; two records are
\* written to distinct files exactly when their names differ, and a file
\* holds the schema of the last record with its name.
C7_Amended ==
  Written =>
    /\ \A n \in 1..Len(schemas) : stdout[n] = Text(C7_Name(schemas[n]))
    /\ DOMAIN files = {C7_Name(schemas[n]) : n \in 1..Len(schemas)}
    /\ \A n \in 1..Len(schemas) :
         LET same == {o \in 1..Len(schemas) :
                        C7_Name(schemas[o]) = C7_Name(schemas[n])}
             last == CHOOSE o \in same : \A q \in same : q <= o
         IN files[C7_Name(schemas[n])] = C7_Content(last)

\* C7 witness: two records with distinct triples were written to one name.
C7_Witness ==
  /\ Written /\ Len(schemas) = 2
  /\ C7_Triple(schemas[1]) # C7_Triple(schemas[2])
  /\ stdout[1] = stdout[2]
  /\ Cardinality(DOMAIN files) = 1

\* C9: write_schema_file leaves the record's definition as it was extracted:
\* while the per-schema files are written every record's definition equals
\* the extracted schema body.
C9_Original ==
  pc = "write" =>
    \A n \in 1..Len(schemas) : schemas[n].definition = extracted[n]

----------------------------------------------------------------------------

\* The first call that inserted v at key k.
C8_First(k, v) ==
  CHOOSE n \in 1..Len(inserted) :
    /\ inserted[n] = <<k, v>>
    /\ \A o \in 1..(n - 1) : inserted[o] # <<k, v>>

\* C8: starting from an object whose lists are absent or duplicate-free, after
\* any sequence of append_no_duplicates calls the list at each called key
\* holds every inserted value exactly once, the values the list started with
\* in their places and the new ones after them in the order of their first
\* insertion, and no other key of the object has changed.
C8_AppendNoDuplicates ==
  /\ \A k \in AppKeys :
       LET l0 == IF Has(obj0, k) THEN obj0.m[k].l ELSE <<>>
       IN IF \A n \in 1..Len(inserted) : inserted[n][1] # k
          THEN /\ Has(obj, k) <=> Has(obj0, k)
               /\ Has(obj, k) => obj.m[k] = obj0.m[k]
          ELSE /\ Has(obj, k) /\ IsList(obj.m[k])
               /\ LET l == obj.m[k].l
                  IN /\ \A n \in 1..Len(inserted) :
                          inserted[n][1] = k => Count(l, inserted[n][2]) = 1
                     /\ Len(l) >= Len(l0) /\ SubSeq(l, 1, Len(l0)) = l0
                     /\ \A a \in (Len(l0) + 1)..Len(l) :
                          \E n \in 1..Len(inserted) : inserted[n] = <<k, l[a]>>
                     /\ \A a, b \in (Len(l0) + 1)..Len(l) :
                          a < b => C8_First(k, l[a]) < C8_First(k, l[b])
  /\ \A k \in (DOMAIN obj.m \cup DOMAIN obj0.m) \ AppKeys :
       Has(obj, k) /\ Has(obj0, k) /\ obj.m[k] = obj0.m[k]

\* C8 witness: a value was inserted twice at a key, another value between.
C8_Witness ==
  /\ Len(inserted) = 3
  /\ inserted[1] = inserted[3]
  /\ inserted[2][1] = inserted[1][1] /\ inserted[2][2] # inserted[1][2]
  /\ Len(obj.m[inserted[1][1]].l) = 2

----------------------------------------------------------------------------

\* A string-valued `type` other than "null" stands in this dict, or in a dict
\* reached from it through dict values and through the dict elements of list
\* values.
RECURSIVE C10_HoldsNonNullType(_)
C10_HoldsNonNullType(n) ==
  /\ IsMap(n)
  /\ \E k \in DOMAIN n.m :
       LET v == n.m[k]
       IN \/ k = "type" /\ IsString(v) /\ v # Str("null")
          \/ IsMap(v) /\ C10_HoldsNonNullType(v)
          \/ IsList(v) /\ \E x \in 1..Len(v.l) : C10_HoldsNonNullType(v.l[x])

\* C10: allow_null_optional_fields fails with the NameError on every dict.
C10_Original ==
  (fn = "allow_null_optional_fields" /\ IsMap(input)) =>
     (IsRaised(ret) /\ ret.type = "NameError")

\* C10 amended: on a dict, allow_null_optional_fields fails with the NameError
\* of line 92 exactly when a string-valued `type` other than "null" stands in
\* the dict or in a dict reached from it through dict values and dict elements
\* of list values; on every other dict it returns a tree equal to its input.
C10_Amended ==
  (fn = "allow_null_optional_fields" /\ IsMap(input)) =>
     /\ IsRaised(ret) <=> C10_HoldsNonNullType(input)
     /\ IsRaised(ret) => ret.type = "NameError"
     /\ ~IsRaised(ret) => ret = input
     /\ data = input

\* C10 witness: the pass returned on a dict that holds a `type`.
C10_Witness ==
  /\ fn = "allow_null_optional_fields" /\ IsMap(input)
  /\ ~IsRaised(ret) /\ Has(input, "type")

====
